---- MODULE Spec2Model ----
(***************************************************************************)
(* A model of djblets' extension hooks (djblets/extensions/hooks.py) and   *)
(* of the web API authentication chain (djblets/webapi/auth.py).           *)
(*                                                                         *)
(* The two halves share no state.  SpecHooks runs the hook operations,     *)
(* SpecTemplate the methods of TemplateHook, SpecChain the resolution of   *)
(* the auth backends under changing settings, SpecLogin the requests that  *)
(* log a client in and out.  SpecAuthThreads and SpecHookThreads run       *)
(* get_auth_backends and TemplateHook.__init__ statement by statement on   *)
(* two threads.                                                            *)
(***************************************************************************)
EXTENDS Integers, Sequences, FiniteSets, TLC

\* ------------------------------------------------------------------------
\* Bounds
\* ------------------------------------------------------------------------

\* How many hook instances are ever constructed.
MaxHooks == 3

\* How many class paths settings.WEB_API_AUTH_BACKENDS lists at most.
MaxPaths == 2

\* ------------------------------------------------------------------------
\* Hooks: the values the operations are called with
\* ------------------------------------------------------------------------

\* The four hook classes that carry the ExtensionHookPoint metaclass.
HookKinds == {"DataGridColumnsHook", "URLHook", "SignalHook", "TemplateHook"}

HookIds == 1 .. MaxHooks

\* column.id of the column objects handed to DataGridColumnsHook: c1 and c2
\* are two objects with the same id, c3 has an id of its own.
ColId(c) == IF c = "c3" THEN "b" ELSE "a"

\* The `columns` arguments tried.
ColumnArgs == {<<"c1">>, <<"c3">>, <<"c3", "c2">>}

\* The URL pattern objects handed to URLHook.
Patterns == {"p1", "p2"}

\* The `patterns` arguments tried; p1 is contributed by two of them.
PatternArgs == {<<"p1">>, <<"p2">>, <<"p1", "p2">>}

\* The `sender` arguments tried: the default None, and a sender object.
Senders == {"None", "S"}

\* The `name` arguments of TemplateHook.
Names == {"n1", "n2"}

\* The `apply_to` arguments of TemplateHook: the empty list, and lists of
\* URL names.
ApplyToArgs == {<<>>, <<"page-a">>, <<"page-b", "page-a">>}

VARIABLES
    \* ---- hooks.py ----
    obj,              \* the fields of each hook instance
    hooks,            \* cls.hooks of each hook class
    by_name,          \* TemplateHook._by_name
    dynamic_urls,     \* extension_manager.dynamic_urls: the installed patterns
    receivers,        \* signal.receivers: (lookup key, receiver) in order
    column_registry,  \* the datagrid class's columns, by column id
    ext_hooks,        \* extension.hooks
    hlast,            \* the hook operation that ran last
    herr,             \* the exception it raised, or "none"
    \* ---- auth.py ----
    settings,         \* settings.WEB_API_AUTH_BACKENDS, when it is set
    auth_backends,    \* the module global _auth_backends
    session_user,     \* request.user of the client's session ("anon": nobody)
    inactive,         \* the users whose is_active is False
    built,            \* get_auth_backends has returned since the last reset
    resets,           \* reset_auth_backends calls since the last resolution
    aop,              \* the auth operation that ran last
    args,             \* what it was called with, and request.user before it
    ret,              \* the result tuple's is_successful, or "None"
    ret_chain,        \* the list get_auth_backends returned to it
    araised,          \* the exception it raised, or "none"
    rebuilt,          \* how many times it rebuilt _auth_backends
    invoked,          \* the backends whose authenticate() it called, in order
    validated,        \* how many times it called auth.authenticate
    \* ---- TemplateHook's methods ----
    context,          \* the template Context the host renders with: its dicts
    tlast,            \* the TemplateHook method that ran last, and its result
    \* ---- threads ----
    pc,               \* where each thread is in the function it runs
    local,            \* each thread's local variables
    returned          \* what each thread's last call returned or raised

hookVars == <<obj, hooks, by_name, dynamic_urls, receivers, column_registry,
              ext_hooks, hlast, herr>>

\* The state of the program that the hook operations read and write
\* (everything but the record of the last call).
hookState == <<obj, hooks, by_name, dynamic_urls, receivers, column_registry,
               ext_hooks>>

authVars == <<settings, auth_backends, session_user, inactive, built, resets,
              aop, args, ret, ret_chain, araised, rebuilt, invoked, validated>>

templateVars == <<context, tlast>>

threadVars == <<pc, local, returned>>

\* What the hook operations leave alone, and what the auth operations do.
besideHooks == <<authVars, templateVars, threadVars>>

besideAuth == <<hookVars, templateVars, threadVars>>

vars == <<hookVars, authVars, templateVars, threadVars>>

\* ------------------------------------------------------------------------
\* Python lists and dicts
\* ------------------------------------------------------------------------

InSeq(x, s) == \E k \in 1 .. Len(s) : s[k] = x

Count(x, s) == Cardinality({k \in 1 .. Len(s) : s[k] = x})

IndexOf(x, s) == CHOOSE k \in 1 .. Len(s) : s[k] = x /\ \A j \in 1 .. (k - 1) : s[j] # x

\* list.remove(x): drops the first occurrence of x (callers check presence).
ListRemove(s, x) ==
    IF InSeq(x, s)
    THEN LET k == IndexOf(x, s)
         IN  SubSeq(s, 1, k - 1) \o SubSeq(s, k + 1, Len(s))
    ELSE s

\* del d[k]
DictDel(d, k) == [x \in (DOMAIN d) \ {k} |-> d[x]]

\* d[k] = v
DictSet(d, k, v) == [x \in (DOMAIN d) \cup {k} |-> IF x = k THEN v ELSE d[x]]

\* ------------------------------------------------------------------------
\* ExtensionHookPoint
\* ------------------------------------------------------------------------

\* A hook instance that has not been constructed yet.
NoHook == [kind |-> "none", initialized |-> FALSE, columns |-> <<>>,
           patterns |-> <<>>, name |-> "", apply_to |-> <<>>]

Born(i) == obj[i].kind # "none"

\* The next instance to be constructed.
CanConstruct == \E i \in HookIds : ~Born(i)

NewId == CHOOSE i \in HookIds : ~Born(i) /\ \A j \in HookIds : j < i => Born(j)

add_hook(h, k, i) == [h EXCEPT ![k] = Append(@, i)]

\* A remove_hook that leaves the list as it is: a fault C2 detects.
remove_hook_kept(h, k, i) == h

\* A remove_hook that drops the hook and every hook attached after it: a
\* fault C19 detects.
remove_hook_tail(h, k, i) ==
    [h EXCEPT ![k] = IF InSeq(i, @) THEN SubSeq(@, 1, IndexOf(i, @) - 1) ELSE @]

remove_hook(h, k, i) == [h EXCEPT ![k] = ListRemove(@, i)]

\* ------------------------------------------------------------------------
\* The collaborators
\* ------------------------------------------------------------------------

\* DynamicURLResolver.add_patterns: the patterns are appended in order.
add_patterns(urls, patterns) == urls \o patterns

\* DynamicURLResolver.remove_patterns: each pattern is removed once; a
\* pattern that is already gone is skipped.
RECURSIVE remove_patterns(_, _)
remove_patterns(urls, patterns) ==
    IF patterns = <<>> THEN urls
    ELSE remove_patterns(ListRemove(urls, Head(patterns)), Tail(patterns))

\* DataGrid.add_column of one column: a column whose id is registered is
\* refused (KeyError), otherwise it is registered under its id.
ColumnRegistered(reg, c) == ColId(c) \in DOMAIN reg

add_column(reg, c) == DictSet(reg, ColId(c), c)

\* The loop `for column in columns: datagrid_cls.add_column(column)`: it
\* stops at the first column that is refused, keeping the ones before it.
RECURSIVE AddColumns(_, _)
AddColumns(reg, columns) ==
    IF columns = <<>> THEN [reg |-> reg, err |-> "none"]
    ELSE IF ColumnRegistered(reg, Head(columns))
         THEN [reg |-> reg, err |-> "KeyError"]
         ELSE AddColumns(add_column(reg, Head(columns)), Tail(columns))

\* DataGrid.remove_column of one column: the entry under the column's id is
\* dropped; an id that is not registered is tolerated.
remove_column(reg, c) ==
    IF ColId(c) \in DOMAIN reg THEN DictDel(reg, ColId(c)) ELSE reg

\* The loop `for column in self.columns: datagrid_cls.remove_column(column)`.
RECURSIVE RemoveColumns(_, _)
RemoveColumns(reg, columns) ==
    IF columns = <<>> THEN reg
    ELSE RemoveColumns(remove_column(reg, Head(columns)), Tail(columns))

\* django.dispatch.Signal keeps its receivers as (lookup key, receiver)
\* pairs.  With a dispatch_uid the lookup key is (dispatch_uid, id(sender)),
\* in connect and in disconnect alike, each from its own arguments; a
\* sender that is not passed is None.
LookupKey(uid, sender) == [uid |-> uid, sender |-> sender]

\* signal.connect(callback, sender=sender, weak=False, dispatch_uid=uid):
\* appended unless the lookup key is connected already.
signal_connect(recv, callback, sender, uid) ==
    IF \E k \in 1 .. Len(recv) : recv[k].key = LookupKey(uid, sender)
    THEN recv
    ELSE Append(recv, [key |-> LookupKey(uid, sender), receiver |-> callback])

\* signal.disconnect(dispatch_uid=uid): no sender is passed, so the lookup
\* key is (uid, None); the first receiver under that key is deleted.
signal_disconnect(recv, uid) ==
    LET key == LookupKey(uid, "None")
        hit == {k \in 1 .. Len(recv) : recv[k].key = key}
    IN  IF hit = {} THEN recv
        ELSE LET k == CHOOSE k \in hit : \A j \in hit : k <= j
             IN  SubSeq(recv, 1, k - 1) \o SubSeq(recv, k + 1, Len(recv))

\* uuid.uuid1(): a value no other instance gets.
dispatch_uid(i) == i

\* ------------------------------------------------------------------------
\* ExtensionHook
\* ------------------------------------------------------------------------

\* ExtensionHook.__init__ on the new instance i of class k, whose other
\* fields are in `fields`.
ExtensionHook_init(i, k, fields) ==
    /\ ext_hooks' = ext_hooks \cup {i}
    /\ hooks' = add_hook(hooks, k, i)
    /\ obj' = [obj EXCEPT ![i] = [fields EXCEPT !.kind = k, !.initialized = TRUE]]

\* A shutdown without its assertion: a fault C10 detects.
assert_skipped(i) == TRUE

\* `assert self.initialized`
assert_initialized(i) == obj[i].initialized

\* What ExtensionHook.shutdown raises.  list.remove raises ValueError for a
\* hook that is not in the list.
ExtensionHook_shutdown_raises(i) ==
    IF ~assert_initialized(i) THEN "AssertionError"
    ELSE IF ~InSeq(i, hooks[obj[i].kind]) THEN "ValueError"
    ELSE "none"

\* ExtensionHook.shutdown, past the assertion.
ExtensionHook_shutdown(i) ==
    /\ hooks' = remove_hook(hooks, obj[i].kind, i)
    /\ obj' = [obj EXCEPT ![i].initialized = FALSE]

\* A shutdown() call on instance i of class k: the base class runs first,
\* and what it raises leaves the subclass's teardown undone.
ShutdownCall(i, k, Teardown) ==
    /\ obj[i].kind = k
    /\ hlast' = [op |-> "shutdown", id |-> i]
    /\ UNCHANGED besideHooks
    /\ herr' = ExtensionHook_shutdown_raises(i)
    /\ IF ExtensionHook_shutdown_raises(i) # "none"
       THEN UNCHANGED hookState
       ELSE /\ ExtensionHook_shutdown(i)
            /\ Teardown
            /\ UNCHANGED ext_hooks

\* ------------------------------------------------------------------------
\* DataGridColumnsHook
\* ------------------------------------------------------------------------

DataGridColumnsHook_init(columns) ==
    /\ CanConstruct
    /\ ExtensionHook_init(NewId, "DataGridColumnsHook",
                          [NoHook EXCEPT !.columns = columns])
    /\ column_registry' = AddColumns(column_registry, columns).reg
    /\ herr' = AddColumns(column_registry, columns).err
    /\ hlast' = [op |-> "attach", id |-> NewId]
    /\ UNCHANGED besideHooks
    /\ UNCHANGED <<by_name, dynamic_urls, receivers>>

DataGridColumnsHook_shutdown(i) ==
    ShutdownCall(i, "DataGridColumnsHook",
        /\ column_registry' = RemoveColumns(column_registry, obj[i].columns)
        /\ UNCHANGED <<by_name, dynamic_urls, receivers>>)

\* ------------------------------------------------------------------------
\* URLHook
\* ------------------------------------------------------------------------

URLHook_init(patterns) ==
    /\ CanConstruct
    /\ ExtensionHook_init(NewId, "URLHook", [NoHook EXCEPT !.patterns = patterns])
    /\ dynamic_urls' = add_patterns(dynamic_urls, patterns)
    /\ herr' = "none"
    /\ hlast' = [op |-> "attach", id |-> NewId]
    /\ UNCHANGED besideHooks
    /\ UNCHANGED <<by_name, receivers, column_registry>>

URLHook_shutdown(i) ==
    ShutdownCall(i, "URLHook",
        /\ dynamic_urls' = remove_patterns(dynamic_urls, obj[i].patterns)
        /\ UNCHANGED <<by_name, receivers, column_registry>>)

\* ------------------------------------------------------------------------
\* SignalHook
\* ------------------------------------------------------------------------

SignalHook_init(sender) ==
    /\ CanConstruct
    /\ ExtensionHook_init(NewId, "SignalHook", NoHook)
    /\ receivers' = signal_connect(receivers, "callback", sender, dispatch_uid(NewId))
    /\ herr' = "none"
    /\ hlast' = [op |-> "attach", id |-> NewId]
    /\ UNCHANGED besideHooks
    /\ UNCHANGED <<by_name, dynamic_urls, column_registry>>

SignalHook_shutdown(i) ==
    ShutdownCall(i, "SignalHook",
        /\ receivers' = signal_disconnect(receivers, dispatch_uid(i))
        /\ UNCHANGED <<by_name, dynamic_urls, column_registry>>)

\* ------------------------------------------------------------------------
\* TemplateHook
\* ------------------------------------------------------------------------

\* A registration that puts the newest hook first: a fault C3 detects.
by_name_prepend(d, name, i) ==
    IF name \notin DOMAIN d THEN DictSet(d, name, <<i>>)
    ELSE DictSet(d, name, <<i>> \o d[name])

\* The by-name registration at the end of TemplateHook.__init__.
by_name_add(d, name, i) ==
    IF name \notin DOMAIN d THEN DictSet(d, name, <<i>>)
    ELSE DictSet(d, name, Append(d[name], i))

TemplateHook_init(name, apply_to) ==
    /\ CanConstruct
    /\ ExtensionHook_init(NewId, "TemplateHook",
                          [NoHook EXCEPT !.name = name, !.apply_to = apply_to])
    /\ by_name' = by_name_add(by_name, name, NewId)
    /\ herr' = "none"
    /\ hlast' = [op |-> "attach", id |-> NewId]
    /\ UNCHANGED besideHooks
    /\ UNCHANGED <<dynamic_urls, receivers, column_registry>>

TemplateHook_shutdown(i) ==
    ShutdownCall(i, "TemplateHook",
        /\ by_name' = DictSet(by_name, obj[i].name, ListRemove(by_name[obj[i].name], i))
        /\ UNCHANGED <<dynamic_urls, receivers, column_registry>>)

\* TemplateHook.by_name(name): cls._by_name.get(name, [])
TemplateHook_by_name(name) == IF name \in DOMAIN by_name THEN by_name[name] ELSE <<>>

\* ------------------------------------------------------------------------
\* AppliesToURLMixin.applies_to
\* ------------------------------------------------------------------------

\* The requests applies_to is asked about: `resolved` says whether
\* request.resolver_match is there, url_name is its url_name ("None" for a
\* route without a name).
Requests ==
    {[resolved |-> TRUE, url_name |-> u] : u \in {"page-a", "page-b", "", "None"}}
    \cup {[resolved |-> FALSE, url_name |-> "None"]}

\* An applies_to that only looks the page up: a fault C14 detects.
listed_only(apply_to, request) ==
    IF ~request.resolved THEN [value |-> FALSE, raised |-> "AttributeError"]
    ELSE [value |-> InSeq(request.url_name, apply_to), raised |-> "none"]

\* `not self.apply_to or request.resolver_match.url_name in self.apply_to`:
\* the right-hand side is evaluated only for a non-empty apply_to, and
\* reading url_name off a resolver_match of None raises.
applies_to(apply_to, request) ==
    IF apply_to = <<>> THEN [value |-> TRUE, raised |-> "none"]
    ELSE IF ~request.resolved THEN [value |-> FALSE, raised |-> "AttributeError"]
    ELSE [value |-> InSeq(request.url_name, apply_to), raised |-> "none"]

\* ------------------------------------------------------------------------
\* TemplateHook.render_to_string
\* ------------------------------------------------------------------------

\* A template Context is the list of its dicts, the innermost scope last.
\* The contexts the host renders with: one scope, and two scopes of which
\* the inner one binds 'extension' already.
Contexts ==
    {<<[title |-> "t"]>>,
     <<[title |-> "t"], [extension |-> "outer"]>>,
     <<[title |-> "t", extension |-> "outer"], [title |-> "u"]>>}

\* What the template engine makes of the hook's template: the rendered
\* text, or one of its exceptions.
RenderOutcomes == {"none", "TemplateDoesNotExist", "TemplateSyntaxError"}

\* context.push()
context_push(c) == Append(c, <<>>)

\* context[key] = value: bound in the innermost scope.
context_set(c, key, value) == [c EXCEPT ![Len(c)] = DictSet(@, key, value)]

\* context.pop()
context_pop(c) == SubSeq(c, 1, Len(c) - 1)

\* context[key]: the innermost binding, "KeyError" when there is none.
RECURSIVE context_get(_, _)
context_get(c, key) ==
    IF c = <<>> THEN "KeyError"
    ELSE IF key \in DOMAIN c[Len(c)] THEN c[Len(c)][key]
    ELSE context_get(context_pop(c), key)

\* A pop that is skipped when rendering raised: a fault C13 detects.
pop_unless_raised(c, raised) == IF raised = "none" THEN context_pop(c) ELSE c

\* The `finally:` clause of render_to_string.
finally_pop(c, raised) == context_pop(c)

\* self.extension of a hook.
extension_of(i) == "extension"

\* TemplateHook.render_to_string(request, context) on instance i, when the
\* template engine's outcome is `raised`: the context after the call, the
\* context the template was rendered with, and what is raised.
render_to_string(i, c, raised) ==
    LET pushed == context_set(context_push(c), "extension", extension_of(i))
    IN  [context |-> finally_pop(pushed, raised), rendered_with |-> pushed,
         raised |-> raised]

\* The record of a TemplateHook method call.
NoTemplateCall == [op |-> "none", id |-> 0, before |-> <<>>, rendered_with |-> <<>>,
                   request |-> [resolved |-> FALSE, url_name |-> "None"],
                   value |-> FALSE, raised |-> "none"]

TemplateHook_render_to_string(i, raised) ==
    LET r == render_to_string(i, context, raised)
    IN  /\ obj[i].kind = "TemplateHook"
        /\ context' = r.context
        /\ tlast' = [NoTemplateCall EXCEPT !.op = "render_to_string", !.id = i,
                                          !.before = context,
                                          !.rendered_with = r.rendered_with,
                                          !.raised = r.raised]
        /\ UNCHANGED <<hookVars, authVars, threadVars>>

TemplateHook_applies_to(i, request) ==
    LET r == applies_to(obj[i].apply_to, request)
    IN  /\ obj[i].kind = "TemplateHook"
        /\ tlast' = [NoTemplateCall EXCEPT !.op = "applies_to", !.id = i,
                                          !.request = request,
                                          !.value = r.value, !.raised = r.raised]
        /\ UNCHANGED <<context, hookVars, authVars, threadVars>>

\* ------------------------------------------------------------------------
\* The hook operations
\* ------------------------------------------------------------------------

HooksInit ==
    /\ obj = [i \in HookIds |-> NoHook]
    /\ hooks = [k \in HookKinds |-> <<>>]
    /\ by_name = <<>>
    /\ dynamic_urls = <<>>
    /\ receivers = <<>>
    /\ column_registry = <<>>
    /\ ext_hooks = {}
    /\ hlast = [op |-> "none", id |-> 0]
    /\ herr = "none"

AttachDataGridColumnsHook == \E columns \in ColumnArgs : DataGridColumnsHook_init(columns)

AttachURLHook == \E patterns \in PatternArgs : URLHook_init(patterns)

AttachSignalHook == \E sender \in Senders : SignalHook_init(sender)

\* TemplateHook(extension, name): apply_to is left at its default.
AttachTemplateHook == \E name \in Names : TemplateHook_init(name, <<>>)

\* TemplateHook(extension, name, apply_to=apply_to)
AttachTemplateHookFor ==
    \E name \in Names, apply_to \in ApplyToArgs : TemplateHook_init(name, apply_to)

ShutdownDataGridColumnsHook == \E i \in HookIds : DataGridColumnsHook_shutdown(i)

ShutdownURLHook == \E i \in HookIds : URLHook_shutdown(i)

ShutdownSignalHook == \E i \in HookIds : SignalHook_shutdown(i)

ShutdownTemplateHook == \E i \in HookIds : TemplateHook_shutdown(i)

CallRenderToString ==
    \E i \in HookIds, raised \in RenderOutcomes : TemplateHook_render_to_string(i, raised)

CallAppliesTo ==
    \E i \in HookIds, request \in Requests : TemplateHook_applies_to(i, request)

\* The TemplateHooks of a page and the calls the page's template tag makes.
TemplateNext ==
    \/ AttachTemplateHookFor
    \/ CallRenderToString
    \/ CallAppliesTo

HooksNext ==
    \/ AttachDataGridColumnsHook
    \/ AttachURLHook
    \/ AttachSignalHook
    \/ AttachTemplateHook
    \/ ShutdownDataGridColumnsHook
    \/ ShutdownURLHook
    \/ ShutdownSignalHook
    \/ ShutdownTemplateHook

\* ------------------------------------------------------------------------
\* Auth: the values the operations are called with
\* ------------------------------------------------------------------------

\* A class path, split at its last '.' the way get_auth_backends splits it.
ClassPath(module, attr) == [module |-> module, attr |-> attr]

\* The default of settings.WEB_API_AUTH_BACKENDS.
DefaultClassPaths == <<ClassPath("djblets.webapi.auth", "WebAPIBasicAuthBackend")>>

\* The class paths a configuration may list: the built-in backend, two
\* backends of an extension, a class its module does not define, and a
\* module that cannot be imported.
PathChoices ==
    {ClassPath("djblets.webapi.auth", "WebAPIBasicAuthBackend"),
     ClassPath("ext.auth", "BackendX"),
     ClassPath("ext.auth", "BackendY"),
     ClassPath("ext.auth", "Missing"),
     ClassPath("ext.nomodule", "Backend")}

\* What `__import__(module, {}, {}, [attr])` finds.
Importable(module) == module \in {"djblets.webapi.auth", "ext.auth"}

\* What `getattr(mod, attr)` finds.
HasAttr(module, attr) ==
    \/ module = "djblets.webapi.auth" /\ attr = "WebAPIBasicAuthBackend"
    \/ module = "ext.auth" /\ attr \in {"BackendX", "BackendY"}

SeqsUpTo(S, n) == UNION {[1 .. k -> S] : k \in 0 .. n}

\* settings without WEB_API_AUTH_BACKENDS.
Unset == [set |-> FALSE, paths |-> <<>>]

SettingsChoices ==
    {Unset} \cup {[set |-> TRUE, paths |-> ps] : ps \in SeqsUpTo(PathChoices, MaxPaths)}

\* The users the identity provider knows, and their passwords.
Users == {"alice", "bob"}

PasswordOf(u) == IF u = "alice" THEN "pw-alice" ELSE "pw-bob"

Passwords == {PasswordOf(u) : u \in Users}

\* The HTTP_AUTHORIZATION headers tried.  `form` is the shape of the value:
\*   "creds"        two space-separated parts, the second the base64 of
\*                  "username:password"
\*   "nocolon"      two parts, the second the base64 of a text without ':'
\*   "undecodable"  two parts, the second not decodable as base64
\*   "parts"        not two space-separated parts
NoHeader == [present |-> FALSE, realm |-> "", form |-> "", username |-> "", password |-> ""]

Realms == {"Basic", "X", "Y"}

Headers ==
    {NoHeader}
    \cup {[present |-> TRUE, realm |-> r, form |-> "creds", username |-> u, password |-> p] :
             r \in Realms, u \in Users, p \in Passwords}
    \cup {[present |-> TRUE, realm |-> r, form |-> f, username |-> "", password |-> ""] :
             r \in Realms, f \in {"nocolon", "undecodable", "parts"}}

\* ------------------------------------------------------------------------
\* django.contrib.auth
\* ------------------------------------------------------------------------

\* auth.authenticate(username=, password=): the user when the credentials
\* are valid, else None.
auth_authenticate(username, password) ==
    IF username \in Users /\ password = PasswordOf(username) THEN username ELSE "None"

\* user.is_active
is_active(user) == user \notin inactive

\* request.user.is_authenticated()
is_authenticated(user) == user # "anon"

\* auth.login(request, user): the session is the user's.
auth_login(user) == user

\* auth.logout(request): the session is nobody's.
auth_logout == "anon"

\* ------------------------------------------------------------------------
\* WebAPIAuthBackend
\* ------------------------------------------------------------------------

\* What a backend call leaves: the result (is_successful of the tuple, or
\* "None"), request.user after it, the auth.authenticate calls made, and the
\* exception raised.
Outcome(r, user, n, e) == [ret |-> r, user |-> user, validated |-> n, raised |-> e]

\* A login that always validates: a fault C8 detects.
never_logged_in(user, username) == FALSE

\* `request.user.is_authenticated() and request.user.username == username`
already_logged_in(user, username) == is_authenticated(user) /\ user = username

\* An acceptance test that forgets is_active: a fault C9 detects.
user_found(user) == user # "None"

\* `user and user.is_active`
user_accepted(user) == user # "None" /\ is_active(user)

\* WebAPIAuthBackend.login_with_credentials(request, username, password)
login_with_credentials(user, username, password) ==
    IF already_logged_in(user, username)
    THEN Outcome("True", user, 0, "none")
    ELSE IF user_accepted(auth_authenticate(username, password))
         THEN Outcome("True", auth_login(auth_authenticate(username, password)), 1, "none")
         ELSE Outcome("False", auth_logout, 1, "none")

\* What get_credentials returns: nothing, a dict for login_with_credentials,
\* or a result tuple; or it raises.
NoCredentials == [kind |-> "none", username |-> "", password |-> "", ok |-> "None", raised |-> "none"]

\* WebAPIBasicAuthBackend.get_credentials.  The header is split and decoded
\* before the realm is looked at.  Unpacking a split of the wrong length is
\* a ValueError, which is caught; a payload that is not base64 makes
\* decode('base64') raise binascii.Error, which is not.
Basic_get_credentials(h) ==
    IF h.form = "parts" THEN NoCredentials
    ELSE IF h.form = "undecodable" THEN [NoCredentials EXCEPT !.kind = "raise", !.raised = "binascii.Error"]
    ELSE IF h.form = "nocolon" THEN NoCredentials
    ELSE IF h.realm # "Basic" THEN NoCredentials
    ELSE [NoCredentials EXCEPT !.kind = "dict", !.username = h.username, !.password = h.password]

\* get_credentials of the subclasses an extension supplies.  BackendX
\* returns a dict for the credentials of realm X; BackendY returns a result
\* tuple for every header of realm Y.
get_credentials(backend, h) ==
    IF backend = "WebAPIBasicAuthBackend" THEN Basic_get_credentials(h)
    ELSE IF backend = "BackendX"
    THEN IF h.realm = "X" /\ h.form = "creds"
         THEN [NoCredentials EXCEPT !.kind = "dict", !.username = h.username, !.password = h.password]
         ELSE NoCredentials
    ELSE IF h.realm = "Y"
         THEN [NoCredentials EXCEPT !.kind = "tuple", !.ok = IF h.form = "creds" THEN "True" ELSE "False"]
         ELSE NoCredentials

\* WebAPIAuthBackend.authenticate(request)
authenticate(backend, h, user) ==
    LET credentials == get_credentials(backend, h)
    IN  IF credentials.kind = "raise" THEN Outcome("None", user, 0, credentials.raised)
        ELSE IF credentials.kind = "none" THEN Outcome("None", user, 0, "none")
        ELSE IF credentials.kind = "dict"
             THEN login_with_credentials(user, credentials.username, credentials.password)
             ELSE Outcome(credentials.ok, user, 0, "none")

\* ------------------------------------------------------------------------
\* get_auth_backends, reset_auth_backends, check_login
\* ------------------------------------------------------------------------

\* A reading of the setting that takes the empty list for unset: a
\* fault C5 as amended detects.
class_paths_or_default(st) == IF st.set /\ st.paths # <<>> THEN st.paths ELSE DefaultClassPaths

\* `getattr(settings, 'WEB_API_AUTH_BACKENDS', [...])`
class_paths(st) == IF st.set THEN st.paths ELSE DefaultClassPaths

\* A loop that passes over a path that does not resolve: a fault C11
\* detects.
RECURSIVE Resolve_skipping(_, _)
Resolve_skipping(paths, backends) ==
    IF paths = <<>> THEN [backends |-> backends, raised |-> "none"]
    ELSE IF ~Importable(Head(paths).module)
              \/ ~HasAttr(Head(paths).module, Head(paths).attr)
         THEN Resolve_skipping(Tail(paths), backends)
         ELSE Resolve_skipping(Tail(paths), Append(backends, Head(paths).attr))

\* The loop over class_paths.  `backends` is _auth_backends, which the loop
\* appends to as it goes: what was appended stays when a path raises.
RECURSIVE Resolve(_, _)
Resolve(paths, backends) ==
    IF paths = <<>> THEN [backends |-> backends, raised |-> "none"]
    ELSE IF ~Importable(Head(paths).module)
              \/ ~HasAttr(Head(paths).module, Head(paths).attr)
         THEN [backends |-> backends, raised |-> "ImproperlyConfigured"]
         ELSE Resolve(Tail(paths), Append(backends, Head(paths).attr))

\* `if not _auth_backends`
unbuilt(backends) == backends = <<>>

\* get_auth_backends(): the value returned, _auth_backends after the call,
\* the exception raised, and whether the list was rebuilt.
get_auth_backends(st, backends) ==
    IF unbuilt(backends)
    THEN LET r == Resolve(class_paths(st), <<>>)
         IN  [value |-> r.backends, backends |-> r.backends, raised |-> r.raised, rebuilt |-> 1]
    ELSE [value |-> backends, backends |-> backends, raised |-> "none", rebuilt |-> 0]

\* A reset that keeps the list: a fault C7 detects.
reset_skipped(backends) == backends

\* reset_auth_backends(): _auth_backends after the call.
reset_auth_backends(backends) == <<>>

\* A loop that goes on after a failure: a fault C4 detects.
stops_on_success(result) == result = "True"

\* `if result is not None: return result`
decisive(result) == result # "None"

\* The loop of check_login over the backends; `done` is the backends whose
\* authenticate() has been called.
RECURSIVE TryBackends(_, _, _, _)
TryBackends(chain, h, user, done) ==
    IF chain = <<>> THEN [ret |-> "None", user |-> user, validated |-> 0,
                          raised |-> "none", invoked |-> done]
    ELSE LET r == authenticate(Head(chain), h, user)
         IN  IF r.raised # "none" \/ decisive(r.ret)
             THEN [ret |-> r.ret, user |-> r.user, validated |-> r.validated,
                   raised |-> r.raised, invoked |-> Append(done, Head(chain))]
             ELSE TryBackends(Tail(chain), h, r.user, Append(done, Head(chain)))

\* ------------------------------------------------------------------------
\* The auth operations
\* ------------------------------------------------------------------------

\* The arguments of a call: the request's header, the credentials passed,
\* request.user before the call, and the resets that preceded it.
NoArgs == [header |-> NoHeader, username |-> "", password |-> "", before |-> "anon",
           resets |-> 0]

\* The record of a call.
Called(op, a, r, chain, e, nb, inv, nv) ==
    /\ aop' = op
    /\ args' = a
    /\ ret' = r
    /\ ret_chain' = chain
    /\ araised' = e
    /\ rebuilt' = nb
    /\ invoked' = inv
    /\ validated' = nv

\* settings.WEB_API_AUTH_BACKENDS is set, changed or removed.
SetSettings(st) ==
    /\ settings' = st
    /\ Called("settings", NoArgs, "None", <<>>, "none", 0, <<>>, 0)
    /\ UNCHANGED <<auth_backends, session_user, inactive, built, resets, besideAuth>>

\* A user is deactivated or reactivated.
SetActive(u) ==
    /\ inactive' = IF u \in inactive THEN inactive \ {u} ELSE inactive \cup {u}
    /\ Called("is_active", NoArgs, "None", <<>>, "none", 0, <<>>, 0)
    /\ UNCHANGED <<settings, auth_backends, session_user, built, resets, besideAuth>>

GetAuthBackends ==
    LET g == get_auth_backends(settings, auth_backends)
    IN  /\ auth_backends' = g.backends
        /\ built' = (IF g.raised = "none" THEN TRUE ELSE built)
        /\ resets' = 0
        /\ Called("get_auth_backends", [NoArgs EXCEPT !.resets = resets], "None",
                  IF g.raised = "none" THEN g.value ELSE <<>>, g.raised, g.rebuilt, <<>>, 0)
        /\ UNCHANGED <<settings, session_user, inactive, besideAuth>>

ResetAuthBackends ==
    /\ auth_backends' = reset_auth_backends(auth_backends)
    /\ built' = FALSE
    /\ resets' = (IF resets < 2 THEN resets + 1 ELSE resets)
    /\ Called("reset_auth_backends", NoArgs, "None", <<>>, "none", 0, <<>>, 0)
    /\ UNCHANGED <<settings, session_user, inactive, besideAuth>>

\* check_login(request)
CheckLogin(h) ==
    LET a == [NoArgs EXCEPT !.header = h, !.before = session_user]
        g == get_auth_backends(settings, auth_backends)
        t == TryBackends(g.value, h, session_user, <<>>)
    IN  IF ~h.present
        THEN /\ Called("check_login", a, "None", <<>>, "none", 0, <<>>, 0)
             /\ UNCHANGED <<settings, auth_backends, session_user, inactive, built, resets, besideAuth>>
        ELSE IF g.raised # "none"
        THEN /\ auth_backends' = g.backends
             /\ resets' = 0
             /\ Called("check_login", a, "None", <<>>, g.raised, g.rebuilt, <<>>, 0)
             /\ UNCHANGED <<settings, session_user, inactive, built, besideAuth>>
        ELSE /\ auth_backends' = g.backends
             /\ built' = TRUE
             /\ resets' = 0
             /\ session_user' = t.user
             /\ Called("check_login", a, t.ret, g.value, t.raised, g.rebuilt, t.invoked, t.validated)
             /\ UNCHANGED <<settings, inactive, besideAuth>>

\* backend.login_with_credentials(request, username, password)
LoginWithCredentials(username, password) ==
    LET r == login_with_credentials(session_user, username, password)
    IN  /\ session_user' = r.user
        /\ Called("login_with_credentials",
                  [NoArgs EXCEPT !.username = username, !.password = password,
                                 !.before = session_user],
                  r.ret, <<>>, r.raised, 0, <<>>, r.validated)
        /\ UNCHANGED <<settings, auth_backends, inactive, built, resets, besideAuth>>

\* account_login(request): a failed login leaves the session as it is.
AccountLogin(username, password) ==
    LET user == auth_authenticate(username, password)
        ok == user # "None" /\ is_active(user)
    IN  /\ session_user' = (IF ok THEN auth_login(user) ELSE session_user)
        /\ Called("account_login",
                  [NoArgs EXCEPT !.username = username, !.password = password,
                                 !.before = session_user],
                  IF ok THEN "True" ELSE "False", <<>>, "none", 0, <<>>, 1)
        /\ UNCHANGED <<settings, auth_backends, inactive, built, resets, besideAuth>>

\* account_logout(request)
AccountLogout ==
    /\ session_user' = auth_logout
    /\ Called("account_logout", [NoArgs EXCEPT !.before = session_user],
              "True", <<>>, "none", 0, <<>>, 0)
    /\ UNCHANGED <<settings, auth_backends, inactive, built, resets, besideAuth>>

\* ------------------------------------------------------------------------
\* Threads
\* ------------------------------------------------------------------------

\* The threads of the host process.  A thread runs one function at a time;
\* the interpreter may switch threads between any two statements.
Threads == {"t1", "t2"}

\* A thread's locals: the class paths its loop has still to resolve, the
\* hook it is constructing, and the outcome of its `name in _by_name` test.
NoLocals == [paths |-> <<>>, id |-> 0, found |-> FALSE]

NoReturn == [op |-> "none", value |-> <<>>, raised |-> "none"]

Idle(t) == pc[t] = "idle"

\* --- get_auth_backends, statement by statement ---

\* A thread calls get_auth_backends().
Thread_get_auth_backends(t) ==
    /\ Idle(t)
    /\ pc' = [pc EXCEPT ![t] = "if_not_auth_backends"]
    /\ local' = [local EXCEPT ![t] = NoLocals]
    /\ UNCHANGED <<returned, hookVars, authVars, templateVars>>

\* `if not _auth_backends:`
Thread_if_not_auth_backends(t) ==
    /\ pc[t] = "if_not_auth_backends"
    /\ pc' = [pc EXCEPT ![t] = IF unbuilt(auth_backends) THEN "class_paths" ELSE "return"]
    /\ UNCHANGED <<local, returned, hookVars, authVars, templateVars>>

\* `class_paths = getattr(settings, 'WEB_API_AUTH_BACKENDS', [...])`
Thread_class_paths(t) ==
    /\ pc[t] = "class_paths"
    /\ local' = [local EXCEPT ![t].paths = class_paths(settings)]
    /\ pc' = [pc EXCEPT ![t] = "rebind"]
    /\ UNCHANGED <<returned, hookVars, authVars, templateVars>>

\* `_auth_backends = []`: the global is bound to a new list.
Thread_rebind(t) ==
    /\ pc[t] = "rebind"
    /\ auth_backends' = <<>>
    /\ pc' = [pc EXCEPT ![t] = "for_class_path"]
    /\ UNCHANGED <<local, returned, hookVars, templateVars>>
    /\ UNCHANGED <<settings, session_user, inactive, built, resets, aop, args, ret,
                   ret_chain, araised, rebuilt, invoked, validated>>

\* One round of `for class_path in class_paths`: the import and the getattr,
\* which raise for a path that does not resolve, and the append to the list
\* the global is bound to at that moment.
Thread_for_class_path(t) ==
    /\ pc[t] = "for_class_path"
    /\ IF local[t].paths = <<>>
       THEN /\ pc' = [pc EXCEPT ![t] = "return"]
            /\ UNCHANGED <<local, returned, auth_backends>>
       ELSE IF ~Importable(Head(local[t].paths).module)
                 \/ ~HasAttr(Head(local[t].paths).module, Head(local[t].paths).attr)
       THEN /\ pc' = [pc EXCEPT ![t] = "idle"]
            /\ returned' = [returned EXCEPT ![t] =
                               [NoReturn EXCEPT !.op = "get_auth_backends",
                                                !.raised = "ImproperlyConfigured"]]
            /\ UNCHANGED <<local, auth_backends>>
       ELSE /\ auth_backends' = Append(auth_backends, Head(local[t].paths).attr)
            /\ local' = [local EXCEPT ![t].paths = Tail(@)]
            /\ UNCHANGED <<pc, returned>>
    /\ UNCHANGED <<hookVars, templateVars>>
    /\ UNCHANGED <<settings, session_user, inactive, built, resets, aop, args, ret,
                   ret_chain, araised, rebuilt, invoked, validated>>

\* `return _auth_backends`: the list as the caller finds it.
Thread_return(t) ==
    /\ pc[t] = "return"
    /\ pc' = [pc EXCEPT ![t] = "idle"]
    /\ returned' = [returned EXCEPT ![t] =
                       [NoReturn EXCEPT !.op = "get_auth_backends",
                                        !.value = auth_backends]]
    /\ UNCHANGED <<local, hookVars, authVars, templateVars>>

\* reset_auth_backends(), called while no thread is inside
\* get_auth_backends.
Thread_reset_auth_backends(t) ==
    /\ \A u \in Threads : Idle(u)
    /\ auth_backends' = reset_auth_backends(auth_backends)
    /\ returned' = [returned EXCEPT ![t] = [NoReturn EXCEPT !.op = "reset_auth_backends"]]
    /\ UNCHANGED <<pc, local, hookVars, templateVars>>
    /\ UNCHANGED <<settings, session_user, inactive, built, resets, aop, args, ret,
                   ret_chain, araised, rebuilt, invoked, validated>>

\* --- TemplateHook.__init__, statement by statement ---

\* `super(TemplateHook, self).__init__(extension, apply_to=apply_to)`,
\* `self.name = name`, `self.template_name = template_name`.
Thread_TemplateHook(t, name, apply_to) ==
    /\ Idle(t)
    /\ CanConstruct
    /\ ExtensionHook_init(NewId, "TemplateHook",
                          [NoHook EXCEPT !.name = name, !.apply_to = apply_to])
    /\ hlast' = [op |-> "attach", id |-> NewId]
    /\ herr' = "none"
    /\ local' = [local EXCEPT ![t] = [NoLocals EXCEPT !.id = NewId]]
    /\ pc' = [pc EXCEPT ![t] = "if_not_name_in_by_name"]
    /\ UNCHANGED <<returned, by_name, dynamic_urls, receivers, column_registry>>
    /\ UNCHANGED <<authVars, templateVars>>

\* `if not name in self.__class__._by_name:`
Thread_if_not_name_in_by_name(t) ==
    /\ pc[t] = "if_not_name_in_by_name"
    /\ local' = [local EXCEPT ![t].found = obj[local[t].id].name \in DOMAIN by_name]
    /\ pc' = [pc EXCEPT ![t] = "register"]
    /\ UNCHANGED <<returned, hookVars, authVars, templateVars>>

\* `self.__class__._by_name[name] = [self]`, or
\* `self.__class__._by_name[name].append(self)`, as the test went.
Thread_register(t) ==
    LET i == local[t].id
        name == obj[i].name
    IN  /\ pc[t] = "register"
        /\ by_name' = IF local[t].found
                      THEN DictSet(by_name, name, Append(by_name[name], i))
                      ELSE DictSet(by_name, name, <<i>>)
        /\ pc' = [pc EXCEPT ![t] = "idle"]
        /\ returned' = [returned EXCEPT ![t] =
                           [NoReturn EXCEPT !.op = "TemplateHook", !.value = <<i>>]]
        /\ UNCHANGED <<local, obj, hooks, dynamic_urls, receivers, column_registry,
                       ext_hooks, hlast, herr>>
        /\ UNCHANGED <<authVars, templateVars>>

\* ------------------------------------------------------------------------
\* The specifications
\* ------------------------------------------------------------------------

\* The process starts with the settings it is given, nothing resolved and
\* nobody logged in.
AuthInit ==
    /\ settings \in SettingsChoices
    /\ auth_backends = <<>>
    /\ session_user = "anon"
    /\ inactive = {}
    /\ built = FALSE
    /\ resets = 0
    /\ aop = "none"
    /\ args = NoArgs
    /\ ret = "None"
    /\ ret_chain = <<>>
    /\ araised = "none"
    /\ rebuilt = 0
    /\ invoked = <<>>
    /\ validated = 0

AuthIdle == AuthInit /\ settings = Unset

\* No TemplateHook method has been called; the host's context has one scope.
TemplateIdle ==
    /\ context = <<[title |-> "t"]>>
    /\ tlast = NoTemplateCall

\* Every thread is between calls.
ThreadsIdle ==
    /\ pc = [t \in Threads |-> "idle"]
    /\ local = [t \in Threads |-> NoLocals]
    /\ returned = [t \in Threads |-> NoReturn]

ChangeSettings == \E st \in SettingsChoices : SetSettings(st)

ChangeActive == \E u \in Users : SetActive(u)

CallCheckLogin == \E h \in Headers : CheckLogin(h)

CallLoginWithCredentials ==
    \E username \in Users, password \in Passwords : LoginWithCredentials(username, password)

CallAccountLogin ==
    \E username \in Users, password \in Passwords : AccountLogin(username, password)

\* The resolution of the backends under changing settings.
ChainNext ==
    \/ ChangeSettings
    \/ GetAuthBackends
    \/ ResetAuthBackends

\* Requests under the settings the process started with.
LoginNext ==
    \/ CallCheckLogin
    \/ CallLoginWithCredentials
    \/ CallAccountLogin
    \/ AccountLogout
    \/ ChangeActive
    \/ GetAuthBackends
    \/ ResetAuthBackends

\* get_auth_backends on two threads.
AuthThreadsNext ==
    \/ \E t \in Threads : Thread_get_auth_backends(t)
    \/ \E t \in Threads : Thread_if_not_auth_backends(t)
    \/ \E t \in Threads : Thread_class_paths(t)
    \/ \E t \in Threads : Thread_rebind(t)
    \/ \E t \in Threads : Thread_for_class_path(t)
    \/ \E t \in Threads : Thread_return(t)
    \/ \E t \in Threads : Thread_reset_auth_backends(t)

\* TemplateHooks constructed on two threads.
HookThreadsNext ==
    \/ \E t \in Threads, name \in Names, apply_to \in ApplyToArgs :
           Thread_TemplateHook(t, name, apply_to)
    \/ \E t \in Threads : Thread_if_not_name_in_by_name(t)
    \/ \E t \in Threads : Thread_register(t)

\* The hooks, with the auth module idle.
InitHooks == HooksInit /\ AuthIdle /\ TemplateIdle /\ ThreadsIdle

\* The auth module, with no hook constructed.
InitAuth == HooksInit /\ AuthInit /\ TemplateIdle /\ ThreadsIdle

\* The TemplateHooks of a page rendered with one of the host's contexts.
InitTemplate ==
    /\ HooksInit
    /\ AuthIdle
    /\ ThreadsIdle
    /\ context \in Contexts
    /\ tlast = NoTemplateCall

SpecHooks == InitHooks /\ [][HooksNext]_vars

SpecChain == InitAuth /\ [][ChainNext]_vars

SpecLogin == InitAuth /\ [][LoginNext]_vars

SpecTemplate == InitTemplate /\ [][TemplateNext]_vars

SpecAuthThreads == InitAuth /\ [][AuthThreadsNext]_vars

SpecHookThreads == InitHooks /\ [][HookThreadsNext]_vars

\* ------------------------------------------------------------------------
\* Properties of the hooks
\* ------------------------------------------------------------------------

Attached(i) == Born(i) /\ obj[i].initialized

\* The last operation was a shutdown() of instance i that returned.
ShutDownNow(i) == hlast = [op |-> "shutdown", id |-> i] /\ herr = "none"

\* How often pattern p is contributed by the URLHooks that are attached.
ContributedCount(p) ==
    Cardinality({jk \in HookIds \X (1 .. 2) :
                    /\ Attached(jk[1])
                    /\ obj[jk[1]].kind = "URLHook"
                    /\ jk[2] <= Len(obj[jk[1]].patterns)
                    /\ obj[jk[1]].patterns[jk[2]] = p})

URLHookReversed(i) ==
    \A p \in Patterns : Count(p, dynamic_urls) = ContributedCount(p)

SignalHookReversed(i) ==
    \A k \in 1 .. Len(receivers) : receivers[k].key.uid # dispatch_uid(i)

DataGridColumnsHookReversed(i) ==
    \A k \in 1 .. Len(obj[i].columns) :
        LET c == obj[i].columns[k]
        IN  ~(ColId(c) \in DOMAIN column_registry /\ column_registry[ColId(c)] = c)

TemplateHookReversed(i) == ~InSeq(i, TemplateHook_by_name(obj[i].name))

\* C1: once shutdown() of an instance has returned, the instance is not in
\* its class's hooks list and what its construction did is undone: its
\* patterns are out of dynamic_urls, its signal receiver is disconnected,
\* its columns are out of the datagrid class, and it is out of the by-name
\* list.
C1_ShutdownReversesAttach ==
    \A i \in HookIds :
        ShutDownNow(i) =>
            /\ ~InSeq(i, hooks[obj[i].kind])
            /\ obj[i].kind = "URLHook" => URLHookReversed(i)
            /\ obj[i].kind = "SignalHook" => SignalHookReversed(i)
            /\ obj[i].kind = "DataGridColumnsHook" => DataGridColumnsHookReversed(i)
            /\ obj[i].kind = "TemplateHook" => TemplateHookReversed(i)

\* C2: no hooks list holds an instance twice, and an instance is in its
\* class's hooks list exactly when its initialized flag is set.
C2_HooksListMatchesInitialized ==
    \A k \in HookKinds : \A i \in HookIds :
        /\ Count(i, hooks[k]) <= 1
        /\ InSeq(i, hooks[k]) <=> (obj[i].kind = k /\ obj[i].initialized)

\* C2's case: an instance has been shut down while another is attached.
C2_Witness ==
    \E i, j \in HookIds :
        /\ ShutDownNow(i)
        /\ obj[j].kind = obj[i].kind
        /\ Attached(j)

\* The attached TemplateHooks called `name`, in the order of construction
\* (instances are numbered as they are constructed).
AttachedNamed(name) ==
    LET Is(i) == obj[i].kind = "TemplateHook" /\ obj[i].initialized /\ obj[i].name = name
    IN  SelectSeq([i \in HookIds |-> i], Is)

\* C3: by_name(N) is the attached TemplateHooks called N, in the order they
\* were attached, and the empty list when there are none.
C3_ByNameInAttachOrder ==
    \A name \in Names \cup {"unused"} : TemplateHook_by_name(name) = AttachedNamed(name)

\* C3's case: of three hooks attached under one name, one that is not the
\* last has been shut down and the other two remain.
C3_Witness ==
    \E i \in HookIds :
        /\ ShutDownNow(i)
        /\ obj[i].kind = "TemplateHook"
        /\ Len(TemplateHook_by_name(obj[i].name)) = 2
        /\ \E j \in HookIds : j > i /\ InSeq(j, TemplateHook_by_name(obj[i].name))

\* ------------------------------------------------------------------------
\* Properties of the auth module
\* ------------------------------------------------------------------------

\* What backend k of the chain returns for the request of the last call,
\* called with request.user as it was before check_login.
Returned(k) == authenticate(ret_chain[k], args.header, args.before)

Declined(k) == Returned(k).ret = "None" /\ Returned(k).raised = "none"

\* C4: check_login calls the backends in the order of the chain and returns
\* the result of the first that does not decline; no backend after it is
\* called; a backend that declines does not end the loop and leaves the
\* session alone; when every backend declines the result is None.
C4_FirstDecisiveBackendWins ==
    aop = "check_login" =>
        IF ~args.header.present
        THEN ret = "None" /\ invoked = <<>> /\ session_user = args.before
        ELSE LET n == Len(invoked)
             IN  /\ n <= Len(ret_chain)
                 /\ \A k \in 1 .. n : invoked[k] = ret_chain[k]
                 /\ \A k \in 1 .. (n - 1) : Declined(k)
                 /\ (araised = "none" /\ ret # "None") =>
                        (n >= 1 /\ Returned(n).ret = ret /\ Returned(n).raised = "none")
                 /\ (araised = "none" /\ ret = "None") =>
                        (n = Len(ret_chain) /\ \A k \in 1 .. n : Declined(k))
                 /\ (\A k \in 1 .. n : Declined(k)) => session_user = args.before

\* C4's case: with [BackendX, BackendY] and credentials only BackendY knows,
\* BackendX was called first and declined, and BackendY's result came back.
C4_Witness ==
    /\ aop = "check_login"
    /\ ret_chain = <<"BackendX", "BackendY">>
    /\ invoked = <<"BackendX", "BackendY">>
    /\ args.header.realm = "Y"
    /\ ret = "True"

\* The last call was a get_auth_backends() that rebuilt _auth_backends.
Rebuilt == aop = "get_auth_backends" /\ rebuilt = 1

\* C5: with WEB_API_AUTH_BACKENDS configured as the empty list, a
\* get_auth_backends() that builds the list returns the single built-in
\* backend.
C5_EmptySettingGivesDefault ==
    (Rebuilt /\ settings.set /\ settings.paths = <<>>) =>
        (araised = "none" /\ ret_chain = <<"WebAPIBasicAuthBackend">>)

\* C5 as amended: a get_auth_backends() that builds the list returns the
\* single built-in backend when WEB_API_AUTH_BACKENDS is not set, and the
\* empty list when it is set to the empty list.
C5_DefaultOnlyWhenUnset ==
    Rebuilt =>
        /\ ~settings.set => (araised = "none" /\ ret_chain = <<"WebAPIBasicAuthBackend">>)
        /\ (settings.set /\ settings.paths = <<>>) => (araised = "none" /\ ret_chain = <<>>)

\* C5's case: the list was built under the empty setting.
C5_Witness == Rebuilt /\ settings.set /\ settings.paths = <<>> /\ ret_chain = <<>>

\* C6: once get_auth_backends() has returned and reset_auth_backends() has
\* not been called since, a further get_auth_backends() returns the same
\* list and does not rebuild it, whatever the settings are by then.
C6_BuiltChainIsReused ==
    [][(built /\ aop' = "get_auth_backends") =>
          (araised' = "none" /\ rebuilt' = 0 /\ ret_chain' = auth_backends)]_vars

\* Every configured class path resolves.
AllResolve(st) ==
    \A k \in 1 .. Len(class_paths(st)) :
        /\ Importable(class_paths(st)[k].module)
        /\ HasAttr(class_paths(st)[k].module, class_paths(st)[k].attr)

\* The classes the configured class paths name, in order.
Configured(st) == [k \in 1 .. Len(class_paths(st)) |-> class_paths(st)[k].attr]

\* C7: reset_auth_backends() empties the list, however often it is called;
\* the get_auth_backends() after one or more resets rebuilds the list once,
\* from the settings as they are at that moment.
C7_ResetThenOneRebuild ==
    /\ aop = "reset_auth_backends" => (auth_backends = <<>> /\ rebuilt = 0)
    /\ (aop = "get_auth_backends" /\ args.resets >= 1) =>
           /\ rebuilt = 1
           /\ AllResolve(settings) =>
                  (araised = "none" /\ ret_chain = Configured(settings)
                   /\ auth_backends = Configured(settings))
           /\ ~AllResolve(settings) => araised = "ImproperlyConfigured"

\* C7's case: a list that was built is rebuilt after two resets in a row.
C7_Witness ==
    /\ aop = "get_auth_backends"
    /\ args.resets = 2
    /\ rebuilt = 1
    /\ ret_chain # <<>>

\* The short-circuit of login_with_credentials applies to the last call.
SameUser == is_authenticated(args.before) /\ args.before = args.username

\* C8: login_with_credentials for the username of the authenticated session
\* succeeds whatever the password, without calling auth.authenticate, and
\* leaves the session as it is.
C8_SameUserShortCircuits ==
    (aop = "login_with_credentials" /\ SameUser) =>
        /\ ret = "True"
        /\ araised = "none"
        /\ validated = 0
        /\ session_user = args.before

\* C8's case: the session's user logs in again with a wrong password.
C8_Witness ==
    /\ aop = "login_with_credentials"
    /\ SameUser
    /\ args.password # PasswordOf(args.username)
    /\ ret = "True"

\* C9: when the short-circuit does not apply, login_with_credentials calls
\* auth.authenticate once; an active user is logged in and the result is
\* success; otherwise the session is cleared and the result is failure.
\* Nothing is raised.
C9_ValidateThenLoginOrLogout ==
    (aop = "login_with_credentials" /\ ~SameUser) =>
        /\ validated = 1
        /\ araised = "none"
        /\ LET user == auth_authenticate(args.username, args.password)
           IN  IF user # "None" /\ user \notin inactive
               THEN ret = "True" /\ session_user = user
               ELSE ret = "False" /\ session_user = "anon"

\* C9's case: a failed login for another username clears the session.
C9_Witness ==
    /\ aop = "login_with_credentials"
    /\ is_authenticated(args.before)
    /\ args.before # args.username
    /\ ret = "False"
    /\ session_user = "anon"

\* ------------------------------------------------------------------------
\* Misuse of the hooks
\* ------------------------------------------------------------------------

\* C10: shutdown() of an instance whose initialized flag is not set raises
\* AssertionError and leaves the hooks lists, the by-name mapping and every
\* collaborator as they were.
C10_ShutdownTwiceRaises ==
    [][\A i \in HookIds :
          (hlast' = [op |-> "shutdown", id |-> i] /\ Born(i) /\ ~obj[i].initialized) =>
              (herr' = "AssertionError" /\ UNCHANGED hookState)]_vars

\* C10's case: a shutdown() of an instance that was shut down before.
C10_Witness ==
    \E i \in HookIds :
        /\ hlast = [op |-> "shutdown", id |-> i]
        /\ herr = "AssertionError"
        /\ Born(i)
        /\ ~obj[i].initialized

\* ------------------------------------------------------------------------
\* Class paths that do not resolve
\* ------------------------------------------------------------------------

\* C11: a call that finds _auth_backends empty (first use, or after a
\* reset) and sets out to build it (rebuilt = 1) under a setting with a
\* class path that does not resolve (its module cannot be imported, or
\* lacks the attribute) raises ImproperlyConfigured: get_auth_backends()
\* returns no list, and check_login(), which gets that far only for a
\* request with an Authorization header, returns no result, calls no
\* backend and leaves the session alone.
C11_UnresolvedPathRaises ==
    (rebuilt = 1 /\ ~AllResolve(settings)) =>
        /\ aop = "get_auth_backends" =>
               (araised = "ImproperlyConfigured" /\ ret_chain = <<>>)
        /\ aop = "check_login" =>
               /\ args.header.present
               /\ araised = "ImproperlyConfigured"
               /\ ret = "None"
               /\ invoked = <<>>
               /\ session_user = args.before

\* C11's case: a check_login() that found the list empty raised because
\* the second of two class paths does not resolve.
C11_Witness ==
    /\ aop = "check_login"
    /\ args.header.present
    /\ rebuilt = 1
    /\ araised = "ImproperlyConfigured"
    /\ Len(settings.paths) = 2
    /\ Importable(settings.paths[1].module)
    /\ HasAttr(settings.paths[1].module, settings.paths[1].attr)

\* ------------------------------------------------------------------------
\* One instance among others
\* ------------------------------------------------------------------------

\* The receivers connected under the dispatch_uid of instance i.
ReceiversOf(i) == {k \in 1 .. Len(receivers) : receivers[k].key.uid = dispatch_uid(i)}

AttachedSignalHooks == {j \in HookIds : Attached(j) /\ obj[j].kind = "SignalHook"}

\* C12: once shutdown() of a SignalHook has returned, its own receiver is
\* gone and the live receivers are those of the SignalHooks that are still
\* attached, one each; all connect the same callback, with the same sender
\* or not.
C12_OtherSubscriptionSurvives ==
    \A i \in HookIds :
        (ShutDownNow(i) /\ obj[i].kind = "SignalHook") =>
            /\ ReceiversOf(i) = {}
            /\ \A j \in AttachedSignalHooks : Cardinality(ReceiversOf(j)) = 1
            /\ Len(receivers) = Cardinality(AttachedSignalHooks)

\* ------------------------------------------------------------------------
\* Properties of TemplateHook's methods
\* ------------------------------------------------------------------------

\* C13: after render_to_string, whether the template rendered or the
\* engine raised, the context has the scopes and the bindings it had before
\* the call; the template was rendered one scope deeper, with 'extension'
\* bound to the hook's extension there.
C13_RenderLeavesContext ==
    tlast.op = "render_to_string" =>
        /\ context = tlast.before
        /\ Len(tlast.rendered_with) = Len(tlast.before) + 1
        /\ context_get(tlast.rendered_with, "extension") = extension_of(tlast.id)
        /\ context_get(context, "extension") = context_get(tlast.before, "extension")

\* C13's case: a render that raised, in a context that binds no 'extension'
\* of its own.
C13_Witness ==
    /\ tlast.op = "render_to_string"
    /\ tlast.raised = "TemplateSyntaxError"
    /\ context_get(context, "extension") = "KeyError"
    /\ context_get(tlast.rendered_with, "extension") = "extension"

\* The URL names in an apply_to list.
Listed(apply_to) == {apply_to[k] : k \in 1 .. Len(apply_to)}

\* C14: applies_to is true for every request when the hook's apply_to is
\* empty; otherwise, for a request that has a resolver_match, it is true
\* exactly when the request's url_name is in apply_to.  With apply_to
\* ['page-a'] it is true for 'page-a' and false for 'page-b' and for ''.
C14_AppliesToAllowList ==
    tlast.op = "applies_to" =>
        LET apply_to == obj[tlast.id].apply_to
            url_name == tlast.request.url_name
        IN  /\ apply_to = <<>> => (tlast.raised = "none" /\ tlast.value)
            /\ (apply_to # <<>> /\ tlast.request.resolved) =>
                   /\ tlast.raised = "none"
                   /\ tlast.value <=> url_name \in Listed(apply_to)
            /\ (apply_to = <<"page-a">> /\ url_name = "page-a") => tlast.value
            /\ (apply_to = <<"page-a">> /\ url_name \in {"page-b", ""}) => ~tlast.value

\* C14's case: a hook restricted to 'page-a' is asked about the page ''.
C14_Witness ==
    /\ tlast.op = "applies_to"
    /\ obj[tlast.id].apply_to = <<"page-a">>
    /\ tlast.request = [resolved |-> TRUE, url_name |-> ""]
    /\ tlast.raised = "none"
    /\ ~tlast.value

\* ------------------------------------------------------------------------
\* Failures part-way
\* ------------------------------------------------------------------------

\* The last call was a get_auth_backends() that raised ImproperlyConfigured.
BuildFailed == aop = "get_auth_backends" /\ araised = "ImproperlyConfigured"

\* C15: a get_auth_backends() that raises ImproperlyConfigured leaves
\* _auth_backends empty, and the get_auth_backends() that follows it under
\* the same settings raises again instead of returning the classes that
\* precede the failing path.
C15_FailedBuildCachesNothing ==
    [][/\ BuildFailed' => auth_backends' = <<>>
       /\ (BuildFailed /\ aop' = "get_auth_backends" /\ settings' = settings) =>
              (araised' = "ImproperlyConfigured" /\ ret_chain' = <<>>)]_vars

\* The last operation was a construction of instance i that raised.
AttachFailed(i) == hlast = [op |-> "attach", id |-> i] /\ herr # "none"

\* C16: when the construction of a hook raises, the instance is in no hooks
\* list and not in the extension's hooks, its initialized flag is not set,
\* and none of its columns is registered with the datagrid class.
C16_FailedAttachLeavesNothing ==
    \A i \in HookIds :
        AttachFailed(i) =>
            /\ \A k \in HookKinds : ~InSeq(i, hooks[k])
            /\ i \notin ext_hooks
            /\ ~obj[i].initialized
            /\ \A n \in 1 .. Len(obj[i].columns) :
                   LET c == obj[i].columns[n]
                   IN  ~(ColId(c) \in DOMAIN column_registry /\ column_registry[ColId(c)] = c)

\* ------------------------------------------------------------------------
\* Two threads
\* ------------------------------------------------------------------------

\* C17: under settings whose class paths all resolve, every
\* get_auth_backends() call returns the configured classes in order,
\* however the calls of two threads interleave, and between calls
\* _auth_backends is empty or holds exactly those classes.
C17_ConcurrentGetsReturnConfigured ==
    AllResolve(settings) =>
        /\ \A t \in Threads :
               returned[t].op = "get_auth_backends" =>
                   (returned[t].raised = "none" /\ returned[t].value = Configured(settings))
        /\ (\A t \in Threads : Idle(t)) => auth_backends \in {<<>>, Configured(settings)}

\* The TemplateHooks that are attached under `name`.
AttachedNamedSet(name) ==
    {i \in HookIds : obj[i].kind = "TemplateHook" /\ obj[i].initialized /\ obj[i].name = name}

\* C18: once the constructors running on the threads have returned,
\* by_name(name) holds every TemplateHook attached under that name, and
\* nothing else.
C18_ConcurrentAttachKeepsBoth ==
    (\A t \in Threads : Idle(t)) =>
        \A name \in Names :
            {TemplateHook_by_name(name)[k] : k \in 1 .. Len(TemplateHook_by_name(name))}
                = AttachedNamedSet(name)

\* ------------------------------------------------------------------------
\* The instances a shutdown is not about
\* ------------------------------------------------------------------------

\* A list without instance i, the rest in order.
Without(s, i) == LET Other(x) == x # i IN SelectSeq(s, Other)

\* The receivers that are not instance i's, in order.
ReceiversBeside(recv, i) ==
    LET Other(r) == r.key.uid # dispatch_uid(i) IN SelectSeq(recv, Other)

PatternsOf(i) == {obj[i].patterns[n] : n \in 1 .. Len(obj[i].patterns)}

ColumnIdsOf(i) == {ColId(obj[i].columns[n]) : n \in 1 .. Len(obj[i].columns)}

\* Instances i and j contributed distinct patterns and distinct columns.
Distinct(i, j) ==
    /\ PatternsOf(i) \cap PatternsOf(j) = {}
    /\ ColumnIdsOf(i) \cap ColumnIdsOf(j) = {}

\* C19: a shutdown() of instance i takes i out of its class's hooks list
\* and leaves the other instances of the list in their order and the lists
\* of the other classes as they were; the fields of every other instance,
\* the receivers of the other SignalHooks and the other entries of the
\* by-name lists stay as they were; and the patterns and columns of every
\* other attached instance, when distinct from i's, stay installed.
C19_ShutdownLeavesOthers ==
    [][\A i \in HookIds :
          hlast' = [op |-> "shutdown", id |-> i] =>
              /\ \A k \in HookKinds : hooks'[k] = Without(hooks[k], i)
              /\ \A j \in HookIds \ {i} : obj'[j] = obj[j]
              /\ ReceiversBeside(receivers', i) = ReceiversBeside(receivers, i)
              /\ DOMAIN by_name' = DOMAIN by_name
              /\ \A name \in DOMAIN by_name :
                     Without(by_name'[name], i) = Without(by_name[name], i)
              /\ \A j \in HookIds \ {i} :
                     (Attached(j) /\ Distinct(i, j)) =>
                         /\ \A p \in PatternsOf(j) :
                                Count(p, dynamic_urls') = Count(p, dynamic_urls)
                         /\ \A n \in 1 .. Len(obj[j].columns) :
                                LET c == obj[j].columns[n]
                                IN  (ColId(c) \in DOMAIN column_registry
                                        /\ column_registry[ColId(c)] = c) =>
                                    (ColId(c) \in DOMAIN column_registry'
                                        /\ column_registry'[ColId(c)] = c)]_vars

\* C19's case: of three attached URLHooks the second has been shut down;
\* the first and the third, which contributed another pattern, are in the
\* list in that order and their pattern is installed twice.
C19_Witness ==
    \E i \in HookIds :
        /\ ShutDownNow(i)
        /\ obj[i].kind = "URLHook"
        /\ Len(hooks["URLHook"]) = 2
        /\ hooks["URLHook"][1] < i
        /\ hooks["URLHook"][2] > i
        /\ \A j \in {hooks["URLHook"][1], hooks["URLHook"][2]} :
               /\ Distinct(i, j)
               /\ \A p \in PatternsOf(j) : Count(p, dynamic_urls) = 2

\* ------------------------------------------------------------------------
\* Headers WebAPIBasicAuthBackend cannot read
\* ------------------------------------------------------------------------

\* The header is Basic credentials: realm 'Basic' and a payload that
\* decodes to "username:password".
BasicCredentials(h) == h.realm = "Basic" /\ h.form = "creds"

\* C20: whenever check_login calls WebAPIBasicAuthBackend, the backend
\* raises nothing; for a header of another scheme and for a malformed one
\* (not two parts, an undecodable payload, no ':' in the payload) its
\* get_credentials returns nothing and authenticate returns None; it
\* returns a username and password only for Basic credentials.
C20_BasicDeclinesWhatItCannotRead ==
    (aop = "check_login" /\ args.header.present) =>
        \A k \in 1 .. Len(invoked) :
            invoked[k] = "WebAPIBasicAuthBackend" =>
                LET credentials == Basic_get_credentials(args.header)
                IN  /\ credentials.kind # "raise"
                    /\ Returned(k).raised = "none"
                    /\ araised = "none"
                    /\ ~BasicCredentials(args.header) =>
                           (credentials.kind = "none" /\ Returned(k).ret = "None")
                    /\ credentials.kind = "dict" => BasicCredentials(args.header)

====
